---- MODULE Spec2Model ----
(***************************************************************************)
(* custom::map<K, V> (map.h): an ordered associative container that wraps  *)
(* a BST<pair<K, V>>.  The map layer is translated from the header; the    *)
(* tree engine (bst.h) and the pair holder (pair.h) are not part of the    *)
(* sources at hand and are modelled from the design document (section 4.1  *)
(* and 4.2): a red-black tree of heap nodes with parent back-references.   *)
(*                                                                         *)
(* Two map objects live over one heap of nodes, so that copies, moves and  *)
(* swaps, and the identity of the node an iterator references, are part of *)
(* the state.  The template is instantiated as map<int, bool>: keys are    *)
(* 1..MaxKey, values are the two booleans, V() = false.  The container     *)
(* never inspects a value, so two values tell apart every case of "which   *)
(* value is stored".                                                       *)
(***************************************************************************)
EXTENDS Integers, Sequences, FiniteSets, TLC

\* ---- bounds of the model ------------------------------------------------
\* keys are 1..MaxKey, the heap has MaxNodes node addresses
MaxKey == 3
MaxNodes == 4
\* the longest literal list (or source range) of pairs a client passes in
MaxList == 2
\* keys and node addresses of the client that grows one tall tree (SpecTall)
MaxTall == 6

\* ---- values ---------------------------------------------------------------
\* nullptr: the pNode of an end iterator, a missing child, the root's parent
NULL == 0
\* V(): the value of pair.second after the key-only constructor Pair pair(key)
DefaultV == FALSE

Keys == 1..MaxKey
Vals == BOOLEAN
NodeIds == 1..MaxNodes
Maps == {1, 2}

\* the literal lists (and source ranges) of pairs a client passes in
Pairs == Keys \X Vals
Lists == UNION {[1..n -> Pairs] : n \in 0..MaxList}

\* A slot of the heap that holds no node (never allocated, or deleted).
FreeNode ==
  [live |-> FALSE, first |-> 0, second |-> DefaultV,
   pLeft |-> NULL, pRight |-> NULL, pParent |-> NULL, isRed |-> FALSE]

\* BNode(t): a fresh node is red and unlinked.
BNode(k, v) ==
  [live |-> TRUE, first |-> k, second |-> v,
   pLeft |-> NULL, pRight |-> NULL, pParent |-> NULL, isRed |-> TRUE]

\* BST(): an empty tree.
EmptyBST == [root |-> NULL, numElements |-> 0]

FreeIds(h) == {n \in DOMAIN h : ~h[n].live}
\* new BNode: the allocator hands out the lowest free address.
NewId(h) == CHOOSE n \in FreeIds(h) : \A m \in FreeIds(h) : n <= m

\* ---- tree iterator (section 4.2) -------------------------------------------
RECURSIVE Leftmost(_, _)
Leftmost(h, n) == IF h[n].pLeft = NULL THEN n ELSE Leftmost(h, h[n].pLeft)

RECURSIVE Rightmost(_, _)
Rightmost(h, n) == IF h[n].pRight = NULL THEN n ELSE Rightmost(h, h[n].pRight)

\* ascend until the node left behind is a left child of its parent
RECURSIVE UpWhileRight(_, _)
UpWhileRight(h, n) ==
  LET p == h[n].pParent
  IN  IF p = NULL THEN NULL
      ELSE IF h[p].pLeft = n THEN p
      ELSE UpWhileRight(h, p)

RECURSIVE UpWhileLeft(_, _)
UpWhileLeft(h, n) ==
  LET p == h[n].pParent
  IN  IF p = NULL THEN NULL
      ELSE IF h[p].pRight = n THEN p
      ELSE UpWhileLeft(h, p)

\* BST::iterator::operator++ : the in-order successor, end if there is none
Increment(h, n) ==
  IF h[n].pRight # NULL THEN Leftmost(h, h[n].pRight) ELSE UpWhileRight(h, n)

\* BST::iterator::operator-- : the in-order predecessor
Decrement(h, n) ==
  IF h[n].pLeft # NULL THEN Rightmost(h, h[n].pLeft) ELSE UpWhileLeft(h, n)

\* BST::begin(): the leftmost node, end if the tree is empty
BSTBegin(h, b) == IF b.root = NULL THEN NULL ELSE Leftmost(h, b.root)

\* BST::end()
BSTEnd == NULL

\* ---- tree engine (section 4.1) ---------------------------------------------
\* BST::find: descend by key comparison
RECURSIVE FindFrom(_, _, _)
FindFrom(h, n, k) ==
  IF n = NULL THEN NULL
  ELSE IF k = h[n].first THEN n
  ELSE IF k < h[n].first THEN FindFrom(h, h[n].pLeft, k)
  ELSE FindFrom(h, h[n].pRight, k)

BSTFind(h, b, k) == FindFrom(h, b.root, k)

\* the node under which a new element with key k is attached (no equal-key stop)
RECURSIVE AttachPoint(_, _, _)
AttachPoint(h, n, k) ==
  IF k < h[n].first
  THEN IF h[n].pLeft = NULL THEN n ELSE AttachPoint(h, h[n].pLeft, k)
  ELSE IF h[n].pRight = NULL THEN n ELSE AttachPoint(h, h[n].pRight, k)

\* the one element of a singleton: The({e(x) : x \in {d}}) is e with x bound to d
The(S) == CHOOSE x \in S : TRUE

\* v takes u's place under u's parent (or as the root)
Transplant(h, r, u, v) ==
  LET p  == h[u].pParent
      h1 == IF p = NULL THEN h
            ELSE IF h[p].pLeft = u THEN [h EXCEPT ![p].pLeft = v]
            ELSE [h EXCEPT ![p].pRight = v]
  IN  [heap |-> IF v = NULL THEN h1 ELSE [h1 EXCEPT ![v].pParent = p],
       root |-> IF p = NULL THEN v ELSE r]

\* x's right child y rises above x; y's left subtree c goes under x
RotateLeft(h, r, x) ==
  The({[heap |-> IF c = NULL
                 THEN [t.heap EXCEPT ![x].pRight = c, ![x].pParent = y, ![y].pLeft = x]
                 ELSE [t.heap EXCEPT ![x].pRight = c, ![x].pParent = y, ![y].pLeft = x,
                                     ![c].pParent = x],
        root |-> t.root] :
       t \in {Transplant(h, r, x, h[x].pRight)},
       y \in {h[x].pRight},
       c \in {h[h[x].pRight].pLeft}})

\* x's left child y rises above x; y's right subtree c goes under x
RotateRight(h, r, x) ==
  The({[heap |-> IF c = NULL
                 THEN [t.heap EXCEPT ![x].pLeft = c, ![x].pParent = y, ![y].pRight = x]
                 ELSE [t.heap EXCEPT ![x].pLeft = c, ![x].pParent = y, ![y].pRight = x,
                                     ![c].pParent = x],
        root |-> t.root] :
       t \in {Transplant(h, r, x, h[x].pLeft)},
       y \in {h[x].pLeft},
       c \in {h[h[x].pLeft].pRight}})

IsRed(h, n) == n # NULL /\ h[n].isRed

\* the rotations of the rebalancing when the aunt is black: the inner grandchild
\* n is first rotated outward, then the parent (or n) rises above the grandparent
\* g and they trade colours
Straighten(h, r, n, p, g) ==
  IF h[g].pLeft = p
  THEN The({The({[heap |-> [t2.heap EXCEPT ![t2.heap[g].pParent].isRed = FALSE,
                                           ![g].isRed = TRUE],
                  root |-> t2.root] :
                 t2 \in {RotateRight(t1.heap, t1.root, g)}}) :
            t1 \in {IF h[p].pRight = n THEN RotateLeft(h, r, p)
                    ELSE [heap |-> h, root |-> r]}})
  ELSE The({The({[heap |-> [t2.heap EXCEPT ![t2.heap[g].pParent].isRed = FALSE,
                                           ![g].isRed = TRUE],
                  root |-> t2.root] :
                 t2 \in {RotateLeft(t1.heap, t1.root, g)}}) :
            t1 \in {IF h[p].pLeft = n THEN RotateRight(h, r, p)
                    ELSE [heap |-> h, root |-> r]}})

\* post-insertion rebalancing: recolouring and rotations from n upward
RECURSIVE Balance(_, _, _)
Balance(h, r, n) ==
  LET p == h[n].pParent
      g == h[h[n].pParent].pParent
      a == IF h[g].pLeft = p THEN h[g].pRight ELSE h[g].pLeft
  IN  IF p = NULL THEN [heap |-> [h EXCEPT ![n].isRed = FALSE], root |-> r]
      ELSE IF ~h[p].isRed THEN [heap |-> h, root |-> r]
      ELSE IF g = NULL THEN [heap |-> [h EXCEPT ![p].isRed = FALSE], root |-> r]
      ELSE IF IsRed(h, a)
      THEN Balance([h EXCEPT ![p].isRed = FALSE, ![a].isRed = FALSE,
                             ![g].isRed = TRUE], r, g)
      ELSE Straighten(h, r, n, p, g)

\* a new red node n for (k, v), linked under the leaf position p
Attach(h, b, k, v, n, p) ==
  [heap |-> IF p = NULL THEN [h EXCEPT ![n] = BNode(k, v)]
            ELSE IF k < h[p].first
            THEN [h EXCEPT ![n] = [BNode(k, v) EXCEPT !.pParent = p], ![p].pLeft = n]
            ELSE [h EXCEPT ![n] = [BNode(k, v) EXCEPT !.pParent = p], ![p].pRight = n],
   root |-> IF p = NULL THEN n ELSE b.root,
   node |-> n]

\* BST::insert(t, keepUnique): (iterator, inserted?)
BSTInsert(h, b, k, v, keepUnique) ==
  IF keepUnique /\ FindFrom(h, b.root, k) # NULL
  THEN [heap |-> h, bst |-> b, it |-> FindFrom(h, b.root, k), inserted |-> FALSE]
  ELSE The({The({[heap |-> bal.heap,
                  bst |-> [root |-> bal.root, numElements |-> b.numElements + 1],
                  it |-> a.node, inserted |-> TRUE] :
                 bal \in {Balance(a.heap, a.root, a.node)}}) :
            a \in {Attach(h, b, k, v, NewId(h),
                          IF b.root = NULL THEN NULL ELSE AttachPoint(h, b.root, k))}})

\* the rebalancing fixups after a black node was removed below xp; x (possibly
\* NULL) is what took its place
RECURSIVE EraseFixup(_, _, _, _)
EraseFixup(h, r, x, xp) ==
  IF xp = NULL
  THEN [heap |-> IF x = NULL THEN h ELSE [h EXCEPT ![x].isRed = FALSE], root |-> r]
  ELSE IF IsRed(h, x)
  THEN [heap |-> [h EXCEPT ![x].isRed = FALSE], root |-> r]
  ELSE IF h[xp].pLeft = x
  THEN LET w == h[xp].pRight
       IN  IF w = NULL THEN EraseFixup(h, r, xp, h[xp].pParent)
           ELSE IF h[w].isRed
           THEN The({EraseFixup(t.heap, t.root, x, xp) :
                     t \in {RotateLeft([h EXCEPT ![w].isRed = FALSE,
                                                 ![xp].isRed = TRUE], r, xp)}})
           ELSE IF ~IsRed(h, h[w].pLeft) /\ ~IsRed(h, h[w].pRight)
           THEN EraseFixup([h EXCEPT ![w].isRed = TRUE], r, xp, h[xp].pParent)
           ELSE IF ~IsRed(h, h[w].pRight)
           THEN The({EraseFixup(t.heap, t.root, x, xp) :
                     t \in {RotateRight([h EXCEPT ![h[w].pLeft].isRed = FALSE,
                                                  ![w].isRed = TRUE], r, w)}})
           ELSE The({[heap |-> [t.heap EXCEPT ![t.root].isRed = FALSE], root |-> t.root] :
                     t \in {RotateLeft([h EXCEPT ![w].isRed = h[xp].isRed,
                                                 ![xp].isRed = FALSE,
                                                 ![h[w].pRight].isRed = FALSE], r, xp)}})
  ELSE LET w == h[xp].pLeft
       IN  IF w = NULL THEN EraseFixup(h, r, xp, h[xp].pParent)
           ELSE IF h[w].isRed
           THEN The({EraseFixup(t.heap, t.root, x, xp) :
                     t \in {RotateRight([h EXCEPT ![w].isRed = FALSE,
                                                  ![xp].isRed = TRUE], r, xp)}})
           ELSE IF ~IsRed(h, h[w].pLeft) /\ ~IsRed(h, h[w].pRight)
           THEN EraseFixup([h EXCEPT ![w].isRed = TRUE], r, xp, h[xp].pParent)
           ELSE IF ~IsRed(h, h[w].pLeft)
           THEN The({EraseFixup(t.heap, t.root, x, xp) :
                     t \in {RotateLeft([h EXCEPT ![h[w].pRight].isRed = FALSE,
                                                 ![w].isRed = TRUE], r, w)}})
           ELSE The({[heap |-> [t.heap EXCEPT ![t.root].isRed = FALSE], root |-> t.root] :
                     t \in {RotateRight([h EXCEPT ![w].isRed = h[xp].isRed,
                                                  ![xp].isRed = FALSE,
                                                  ![h[w].pLeft].isRed = FALSE], r, xp)}})

\* physical removal of a node with at most one child: cases (a) leaf, detach;
\* (b) one child, promote it; then the fixups, and the node is released
Unlink(h, r, z) ==
  The({IF h[z].isRed THEN [heap |-> [t.heap EXCEPT ![z] = FreeNode], root |-> t.root]
       ELSE EraseFixup([t.heap EXCEPT ![z] = FreeNode], t.root, c, h[z].pParent) :
       c \in {IF h[z].pLeft # NULL THEN h[z].pLeft ELSE h[z].pRight},
       t \in {Transplant(h, r, z, IF h[z].pLeft # NULL THEN h[z].pLeft ELSE h[z].pRight)}})

\* BST::erase(it): the iterator to the in-order successor of what was removed.
\* Case (c), two children: the node takes its in-order successor's element and
\* the successor's node is the one removed, so the successor element is then at
\* the node the iterator came in with.
BSTErase(h, b, n) ==
  IF n = NULL THEN [heap |-> h, bst |-> b, it |-> BSTEnd]
  ELSE IF h[n].pLeft # NULL /\ h[n].pRight # NULL
  THEN The({The({[heap |-> u.heap,
                  bst |-> [root |-> u.root, numElements |-> b.numElements - 1],
                  it |-> n] :
                 u \in {Unlink([h EXCEPT ![n].first = h[s].first,
                                         ![n].second = h[s].second], b.root, s)}}) :
            s \in {Leftmost(h, h[n].pRight)}})
  ELSE The({[heap |-> u.heap,
             bst |-> [root |-> u.root, numElements |-> b.numElements - 1],
             it |-> next] :
            u \in {Unlink(h, b.root, n)},
            next \in {Increment(h, n)}})

RECURSIVE Subtree(_, _)
Subtree(h, n) ==
  IF n = NULL THEN {}
  ELSE {n} \cup Subtree(h, h[n].pLeft) \cup Subtree(h, h[n].pRight)

\* BST::clear(): every node released, root empty, count zero
BSTClear(h, b) ==
  The({[heap |-> [n \in DOMAIN h |-> IF n \in owned THEN FreeNode ELSE h[n]],
        bst |-> EmptyBST] :
       owned \in {Subtree(h, b.root)}})

\* deep clone of the subtree at src under a new parent
RECURSIVE CopyTree(_, _, _)
CopyTree(h, src, parent) ==
  IF src = NULL THEN [heap |-> h, node |-> NULL]
  ELSE The({The({The({[heap |-> [r.heap EXCEPT ![n].pLeft = l.node,
                                               ![n].pRight = r.node],
                       node |-> n] :
                      r \in {CopyTree(l.heap, h[src].pRight, n)}}) :
                 l \in {CopyTree([h EXCEPT ![n] = [h[src] EXCEPT !.pParent = parent,
                                                                 !.pLeft = NULL,
                                                                 !.pRight = NULL]],
                                 h[src].pLeft, n)}}) :
            n \in {NewId(h)}})

\* BST::BST(const BST&): every source node is duplicated into the new tree
BSTCopy(h, src) ==
  The({[heap |-> t.heap,
        bst |-> [root |-> t.node, numElements |-> src.numElements]] :
       t \in {CopyTree(h, src.root, NULL)}})

\* BST::operator=(const BST&): the destination's nodes go, every source node is
\* duplicated
BSTAssign(h, dst, src) ==
  The({The({[heap |-> t.heap,
             bst |-> [root |-> t.node, numElements |-> src.numElements]] :
            t \in {CopyTree(c.heap, src.root, NULL)}}) :
       c \in {BSTClear(h, dst)}})

\* BST::BST(BST&&): root and count are taken over, the source is left empty
BSTMove(src) == [dst |-> src, src |-> EmptyBST]

\* BST::operator=(BST&&): root and count are transferred, the source is left empty
BSTMoveAssign(h, dst, src) ==
  The({[heap |-> c.heap, dst |-> src, src |-> EmptyBST] : c \in {BSTClear(h, dst)}})

\* ---- associative map layer (map.h) ------------------------------------------
\* map::end()
MapEnd == BSTEnd

\* map::begin()
MapBegin(h, b) == BSTBegin(h, b)

\* map::size()
MapSize(b) == b.numElements

\* map::empty()
MapEmpty(b) == MapSize(b) = 0

\* (mutation of find: a miss answers begin() instead of end())
MapFind_NoEnd(h, b, k) ==
  IF BSTFind(h, b, k) = BSTEnd THEN BSTBegin(h, b) ELSE BSTFind(h, b, k)

\* map::find(k): pair<K, V> searchPair(k); bst.find(searchPair)
MapFind(h, b, k) == BSTFind(h, b, k)

\* (mutation of insert: keepUnique left at false)
MapInsert_NotUnique(h, b, k, v) == BSTInsert(h, b, k, v, FALSE)

\* (mutation of insert: the value of a key already present is updated)
MapInsert_Update(h, b, k, v) ==
  The({[r EXCEPT !.heap = [r.heap EXCEPT ![r.it].second = v]] :
       r \in {BSTInsert(h, b, k, v, TRUE)}})

\* (mutation of insert: the new node is attached and nothing is rebalanced)
MapInsert_Unbalanced(h, b, k, v) ==
  IF FindFrom(h, b.root, k) # NULL
  THEN [heap |-> h, bst |-> b, it |-> FindFrom(h, b.root, k), inserted |-> FALSE]
  ELSE The({[heap |-> a.heap,
             bst |-> [root |-> a.root, numElements |-> b.numElements + 1],
             it |-> a.node, inserted |-> TRUE] :
            a \in {Attach(h, b, k, v, NewId(h),
                          IF b.root = NULL THEN NULL ELSE AttachPoint(h, b.root, k))}})

\* map::insert(rhs): bst.insert(rhs, /*keepUnique: */true)
MapInsert(h, b, k, v) == BSTInsert(h, b, k, v, TRUE)

\* map::insert(first, last): while (first != last) { insert(*first); ++first; }
\* the iterators are positions in the source sequence il
RECURSIVE MapInsertRange(_, _, _, _, _)
MapInsertRange(h, b, il, first, last) ==
  IF first = last THEN [heap |-> h, bst |-> b]
  ELSE The({MapInsertRange(r.heap, r.bst, il, first + 1, last) :
            r \in {MapInsert(h, b, il[first][1], il[first][2])}})

\* map::insert(il): for (const Pair& pair : il) insert(pair);
RECURSIVE MapInsertFrom(_, _, _, _)
MapInsertFrom(h, b, il, x) ==
  IF x > Len(il) THEN [heap |-> h, bst |-> b]
  ELSE The({MapInsertFrom(r.heap, r.bst, il, x + 1) :
            r \in {MapInsert(h, b, il[x][1], il[x][2])}})

MapInsertList(h, b, il) == MapInsertFrom(h, b, il, 1)

\* (mutation of operator[]: keepUnique left at false)
MapSubscript_NotUnique(h, b, k) ==
  The({[heap |-> returnValue.heap, bst |-> returnValue.bst, ref |-> returnValue.it] :
       returnValue \in {BSTInsert(h, b, k, DefaultV, FALSE)}})

\* map::operator[](key): insert Pair(key), keepUnique; a reference to the
\* resulting node's data.second
MapSubscript(h, b, k) ==
  The({[heap |-> returnValue.heap, bst |-> returnValue.bst, ref |-> returnValue.it] :
       returnValue \in {BSTInsert(h, b, k, DefaultV, TRUE)}})

\* map::operator[](key) const: find; a reference to the node's data.second, or
\* to the second of the local Pair pair(key).  The local is gone when the call
\* returns: what is read through that reference is any value of V.  The
\* outcomes of the call, as a set.
MapSubscriptConst(h, b, k) ==
  IF BSTFind(h, b, k) # BSTEnd
  THEN {[ref |-> BSTFind(h, b, k), value |-> h[BSTFind(h, b, k)].second]}
  ELSE {[ref |-> NULL, value |-> v] : v \in Vals}

\* (mutation of at: no throw, whatever find answered)
MapAt_NoThrow(h, b, k) ==
  [heap |-> h, bst |-> b, ref |-> MapFind(h, b, k), threw |-> FALSE]

\* (mutation of at: access-or-create, as operator[] does)
MapAt_Inserts(h, b, k) ==
  The({[heap |-> r.heap, bst |-> r.bst, ref |-> r.it, threw |-> FALSE] :
       r \in {BSTInsert(h, b, k, DefaultV, TRUE)}})

\* map::at(key): find; a reference to data.second, or throw std::out_of_range
MapAt(h, b, k) ==
  The({IF it # MapEnd
       THEN [heap |-> h, bst |-> b, ref |-> it, threw |-> FALSE]
       ELSE [heap |-> h, bst |-> b, ref |-> NULL, threw |-> TRUE] :
       it \in {MapFind(h, b, k)}})

\* (mutation of erase(it): the iterator passed in is handed back)
MapEraseIt_ReturnsArg(h, b, it) ==
  The({[heap |-> e.heap, bst |-> e.bst, it |-> it] : e \in {BSTErase(h, b, it)}})

\* map::erase(it): bst.erase(it.it)
MapEraseIt(h, b, it) == BSTErase(h, b, it)

\* (mutation of erase(k): no test of the iterator against end())
MapEraseKey_NoCheck(h, b, k) ==
  The({The({[heap |-> e.heap, bst |-> e.bst, n |-> 1] :
            e \in {MapEraseIt(h, b, it)}}) :
       it \in {MapFind(h, b, k)}})

\* map::erase(k): find; if found erase(it) and return 1, else return 0
MapEraseKey(h, b, k) ==
  The({IF it # MapEnd
       THEN The({[heap |-> e.heap, bst |-> e.bst, n |-> 1] :
                 e \in {MapEraseIt(h, b, it)}})
       ELSE [heap |-> h, bst |-> b, n |-> 0] :
       it \in {MapFind(h, b, k)}})

\* map::iterator::operator++(int): iterator temp(*this); ++it; return temp;
MapIterPostInc(h, it) == [it |-> Increment(h, it), returned |-> it]

\* map::iterator::operator--(int): iterator temp(*this); --it; return *this;
MapIterPostDec(h, it) == [it |-> Decrement(h, it), returned |-> Decrement(h, it)]

\* (mutation of clear: the nodes go and the root is reset, the count stays)
MapClear_KeepCount(h, b) ==
  The({[heap |-> c.heap, bst |-> [root |-> NULL, numElements |-> b.numElements]] :
       c \in {BSTClear(h, b)}})

\* map::clear(): bst.clear()
MapClear(h, b) == BSTClear(h, b)

\* map::map(const map& rhs) : bst(rhs.bst)
MapCopyConstruct(h, src) == BSTCopy(h, src)

\* (mutation of copy assignment: the destination takes the source's root, the
\* nodes are shared)
MapAssign_Shallow(h, dst, src) ==
  The({[heap |-> c.heap, bst |-> src] : c \in {BSTClear(h, dst)}})

\* map::operator=(il): clear(); insert(il)
MapAssignList(h, b, il) ==
  The({MapInsertList(c.heap, c.bst, il) : c \in {MapClear(h, b)}})

\* map::map(il): *this = il, on the member bst as default-constructed
MapConstructList(h, il) == MapAssignList(h, EmptyBST, il)

\* map::map(first, last): insert(first, last), on the member bst as
\* default-constructed
MapConstructRange(h, il, first, last) == MapInsertRange(h, EmptyBST, il, first, last)

\* map::operator=(const map&): bst = rhs.bst
MapAssign(h, dst, src) == BSTAssign(h, dst, src)

\* map::map(map&& rhs) : bst(std::move(rhs.bst))
MapMoveConstruct(src) == BSTMove(src)

\* (mutation of move assignment: the source keeps its root and its count)
MapMoveAssign_KeepsSource(h, dst, src) ==
  The({[heap |-> c.heap, dst |-> src, src |-> src] : c \in {MapClear(h, dst)}})

\* map::operator=(map&&): clear(); bst = std::move(rhs.bst)
MapMoveAssign(h, dst, src) ==
  The({BSTMoveAssign(c.heap, c.bst, src) : c \in {MapClear(h, dst)}})

\* (mutation of swap: the roots change hands, the counts stay)
MapSwap_RootsOnly(lhs, rhs) ==
  [lhs |-> [lhs EXCEPT !.root = rhs.root], rhs |-> [rhs EXCEPT !.root = lhs.root]]

\* swap(lhs, rhs): std::swap(lhs.bst, rhs.bst)
MapSwap(lhs, rhs) == [lhs |-> rhs, rhs |-> lhs]

\* ---- observation: a full traversal from begin() with ++ until end() ---------
RECURSIVE Walk(_, _, _)
Walk(h, n, fuel) ==
  IF n = MapEnd \/ fuel = 0 THEN <<>>
  ELSE <<n>> \o Walk(h, Increment(h, n), fuel - 1)

\* the nodes visited; a walk of more steps than there are nodes is cut (it is a
\* cycle)
Visited(h, b) == Walk(h, MapBegin(h, b), Cardinality(DOMAIN h) + 1)

\* the (key, value) elements visited
Elements(h, b) ==
  The({[x \in 1..Len(w) |-> <<h[w[x]].first, h[w[x]].second>>] :
       w \in {Visited(h, b)}})

KeysOf(h, b) == The({{e[x][1] : x \in 1..Len(e)} : e \in {Elements(h, b)}})

\* the nodes of the range [f, l) of a traversal
\* the position of n in the traversal w, one past its length for end()
Position(w, n) ==
  IF n = MapEnd THEN Len(w) + 1 ELSE CHOOSE x \in 1..Len(w) : w[x] = n

RangeNodes(h, b, f, l) ==
  The({{w[x] : x \in {y \in 1..Len(w) : Position(w, f) <= y /\ y < Position(w, l)}} :
       w \in {Visited(h, b)}})

ValidRange(h, b, f, l) ==
  \E w \in {Visited(h, b)} : Position(w, f) <= Position(w, l)

\* ---- state ------------------------------------------------------------------
VARIABLES
  heap,     \* the nodes: address -> BNode, or FreeNode
  bst,      \* map object -> its BST member (root, numElements)
  ret,      \* the last call: operation, arguments, what it returned
  loop,     \* the call of erase(first, last) in progress, if any
  shadow    \* per map, the (key, value) pairs the calls so far should have left

vars == <<heap, bst, ret, loop, shadow>>

Ret(op, m, k, v, arg, it, ok) ==
  [op |-> op, m |-> m, k |-> k, v |-> v, arg |-> arg, it |-> it, ok |-> ok]

NoRet == Ret("none", 0, 0, DefaultV, NULL, NULL, FALSE)
NoLoop == [active |-> FALSE, m |-> 0, first |-> NULL, last |-> NULL]

Without(s, k) == {p \in s : p[1] # k}
HasKey(s, k) == \E p \in s : p[1] = k

\* the keys of a list of pairs, and the place of the first pair with key k
ListKeys(il) == {il[x][1] : x \in 1..Len(il)}
FirstAt(il, k) == CHOOSE x \in 1..Len(il) : il[x][1] = k /\ \A y \in 1..(x - 1) : il[y][1] # k

\* the pairs s, and for each key of il that s lacks the first pair of il with it
FirstWins(s, il) ==
  s \cup {<<k, il[FirstAt(il, k)][2]>> : k \in {c \in ListKeys(il) : ~HasKey(s, c)}}

\* the value behind a reference or an iterator, DefaultV if there is none
Deref(h, n) == IF n = NULL THEN DefaultV ELSE h[n].second

Init ==
  /\ heap = [n \in NodeIds |-> FreeNode]
  /\ bst = [i \in Maps |-> EmptyBST]
  /\ ret = NoRet
  /\ loop = NoLoop
  /\ shadow = [i \in Maps |-> {}]

\* m.insert({k, v})
Insert(i, k, v) ==
  /\ ~loop.active
  /\ FreeIds(heap) # {}
  /\ \E r \in {MapInsert(heap, bst[i], k, v)} :
         /\ heap' = r.heap
         /\ bst' = [bst EXCEPT ![i] = r.bst]
         /\ ret' = Ret("insert", i, k, v, NULL, r.it, r.inserted)
  /\ shadow' = [shadow EXCEPT ![i] = IF HasKey(@, k) THEN @ ELSE @ \cup {<<k, v>>}]
  /\ UNCHANGED loop

\* V& r = m[k]
Subscript(i, k) ==
  /\ ~loop.active
  /\ FreeIds(heap) # {}
  /\ \E r \in {MapSubscript(heap, bst[i], k)} :
         /\ heap' = r.heap
         /\ bst' = [bst EXCEPT ![i] = r.bst]
         /\ ret' = Ret("subscript", i, k, Deref(r.heap, r.ref), NULL, r.ref, TRUE)
  /\ shadow' = [shadow EXCEPT ![i] = IF HasKey(@, k) THEN @ ELSE @ \cup {<<k, DefaultV>>}]
  /\ UNCHANGED loop

\* r = v, through the reference m[k] or m.at(k) has just returned
AssignRef(v) ==
  /\ ~loop.active
  /\ ret.op \in {"subscript", "at"}
  /\ ret.ok
  /\ ret.it # NULL
  /\ heap' = [heap EXCEPT ![ret.it].second = v]
  /\ ret' = Ret("assign", ret.m, ret.k, v, NULL, ret.it, TRUE)
  /\ shadow' = [shadow EXCEPT ![ret.m] = Without(@, ret.k) \cup {<<ret.k, v>>}]
  /\ UNCHANGED <<bst, loop>>

\* const map& c = m; c[k], and the value read through the reference returned
SubscriptConst(i, k) ==
  /\ ~loop.active
  /\ \E r \in MapSubscriptConst(heap, bst[i], k) :
        ret' = Ret("subscript_const", i, k, r.value, NULL, r.ref, TRUE)
  /\ UNCHANGED <<heap, bst, loop, shadow>>

\* m.at(k), returning or throwing
At(i, k) ==
  /\ ~loop.active
  /\ \E r \in {MapAt(heap, bst[i], k)} :
         /\ heap' = r.heap
         /\ bst' = [bst EXCEPT ![i] = r.bst]
         /\ ret' = Ret("at", i, k, Deref(r.heap, r.ref), NULL, r.ref, ~r.threw)
  /\ UNCHANGED <<loop, shadow>>

\* m.find(k)
Find(i, k) ==
  /\ ~loop.active
  /\ \E it \in {MapFind(heap, bst[i], k)} :
         ret' = Ret("find", i, k, Deref(heap, it), NULL, it, TRUE)
  /\ UNCHANGED <<heap, bst, loop, shadow>>

\* m.erase(k)
EraseKey(i, k) ==
  /\ ~loop.active
  /\ \E r \in {MapEraseKey(heap, bst[i], k)}, it \in {MapFind(heap, bst[i], k)} :
         /\ heap' = r.heap
         /\ bst' = [bst EXCEPT ![i] = r.bst]
         /\ ret' = Ret("erase_key", i, k, DefaultV, it, NULL, r.n = 1)
  /\ shadow' = [shadow EXCEPT ![i] = Without(@, k)]
  /\ UNCHANGED loop

\* m.erase(it), it an iterator into m or m.end()
EraseIt(i, it) ==
  /\ ~loop.active
  /\ it \in Subtree(heap, bst[i].root) \cup {MapEnd}
  /\ \E r \in {MapEraseIt(heap, bst[i], it)} :
         /\ heap' = r.heap
         /\ bst' = [bst EXCEPT ![i] = r.bst]
         /\ ret' = Ret("erase_it", i, IF it = MapEnd THEN 0 ELSE heap[it].first,
                       DefaultV, it, r.it, TRUE)
  /\ shadow' = [shadow EXCEPT ![i] = IF it = MapEnd THEN @ ELSE Without(@, heap[it].first)]
  /\ UNCHANGED loop

\* m.erase(first, last) is entered with a valid range of m
EraseRangeCall(i, first, last) ==
  /\ ~loop.active
  /\ first \in Subtree(heap, bst[i].root) \cup {MapEnd}
  /\ last \in Subtree(heap, bst[i].root) \cup {MapEnd}
  /\ ValidRange(heap, bst[i], first, last)
  /\ loop' = [active |-> TRUE, m |-> i, first |-> first, last |-> last]
  /\ ret' = Ret("erase_range_call", i, 0, DefaultV, first, last, FALSE)
  /\ shadow' = [shadow EXCEPT ![i] =
                  {p \in @ : \A n \in RangeNodes(heap, bst[i], first, last) :
                                 p[1] # heap[n].first}]
  /\ UNCHANGED <<heap, bst>>

\* one turn of while (first != last) first = erase(first); or return first
EraseRangeLoop ==
  /\ loop.active
  /\ IF loop.first # loop.last
     THEN \E r \in {MapEraseIt(heap, bst[loop.m], loop.first)} :
              /\ heap' = r.heap
              /\ bst' = [bst EXCEPT ![loop.m] = r.bst]
              /\ loop' = [loop EXCEPT !.first = r.it]
              /\ UNCHANGED <<ret, shadow>>
     ELSE /\ loop' = NoLoop
          /\ ret' = Ret("erase_range", loop.m, 0, DefaultV, NULL, loop.first, TRUE)
          /\ UNCHANGED <<heap, bst, shadow>>

\* m.insert({p1, p2, ...})
InsertList(i, il) ==
  /\ ~loop.active
  /\ Cardinality(FreeIds(heap)) >= Cardinality({k \in ListKeys(il) : ~HasKey(shadow[i], k)})
  /\ \E r \in {MapInsertList(heap, bst[i], il)} :
        /\ heap' = r.heap
        /\ bst' = [bst EXCEPT ![i] = r.bst]
  /\ ret' = Ret("insert_list", i, 0, DefaultV, il, NULL, TRUE)
  /\ shadow' = [shadow EXCEPT ![i] = FirstWins(@, il)]
  /\ UNCHANGED loop

\* m.insert(first, last), first and last positions in a sequence of pairs
InsertRange(i, il, first, last) ==
  /\ ~loop.active
  /\ first <= last
  /\ last <= Len(il) + 1
  /\ \E range \in {SubSeq(il, first, last - 1)} :
        /\ Cardinality(FreeIds(heap)) >=
             Cardinality({k \in ListKeys(range) : ~HasKey(shadow[i], k)})
        /\ ret' = Ret("insert_range", i, 0, DefaultV, range, NULL, TRUE)
        /\ shadow' = [shadow EXCEPT ![i] = FirstWins(@, range)]
  /\ \E r \in {MapInsertRange(heap, bst[i], il, first, last)} :
        /\ heap' = r.heap
        /\ bst' = [bst EXCEPT ![i] = r.bst]
  /\ UNCHANGED loop

\* m = {p1, p2, ...}
AssignList(i, il) ==
  /\ ~loop.active
  /\ Cardinality(FreeIds(heap)) + bst[i].numElements >= Cardinality(ListKeys(il))
  /\ \E r \in {MapAssignList(heap, bst[i], il)} :
        /\ heap' = r.heap
        /\ bst' = [bst EXCEPT ![i] = r.bst]
  /\ ret' = Ret("assign_list", i, 0, DefaultV, il, NULL, TRUE)
  /\ shadow' = [shadow EXCEPT ![i] = FirstWins({}, il)]
  /\ UNCHANGED loop

\* map m{p1, p2, ...}: the object in slot i begins its life from a literal list
ConstructList(i, il) ==
  /\ ~loop.active
  /\ bst[i] = EmptyBST
  /\ Cardinality(FreeIds(heap)) >= Cardinality(ListKeys(il))
  /\ \E r \in {MapConstructList(heap, il)} :
        /\ heap' = r.heap
        /\ bst' = [bst EXCEPT ![i] = r.bst]
  /\ ret' = Ret("construct_list", i, 0, DefaultV, il, NULL, TRUE)
  /\ shadow' = [shadow EXCEPT ![i] = FirstWins({}, il)]
  /\ UNCHANGED loop

\* map m(first, last): the object in slot i begins its life from a range
ConstructRange(i, il, first, last) ==
  /\ ~loop.active
  /\ bst[i] = EmptyBST
  /\ first <= last
  /\ last <= Len(il) + 1
  /\ \E range \in {SubSeq(il, first, last - 1)} :
        /\ Cardinality(FreeIds(heap)) >= Cardinality(ListKeys(range))
        /\ ret' = Ret("construct_range", i, 0, DefaultV, range, NULL, TRUE)
        /\ shadow' = [shadow EXCEPT ![i] = FirstWins({}, range)]
  /\ \E r \in {MapConstructRange(heap, il, first, last)} :
        /\ heap' = r.heap
        /\ bst' = [bst EXCEPT ![i] = r.bst]
  /\ UNCHANGED loop

\* r = it++, it an iterator at an element of m
PostInc(i, it) ==
  /\ ~loop.active
  /\ it \in Subtree(heap, bst[i].root)
  /\ \E r \in {MapIterPostInc(heap, it)} :
        ret' = Ret("post_inc", i, heap[it].first, heap[it].second,
                   [before |-> it, after |-> r.it], r.returned, TRUE)
  /\ UNCHANGED <<heap, bst, loop, shadow>>

\* r = it--, it an iterator at an element of m other than the first
PostDec(i, it) ==
  /\ ~loop.active
  /\ it \in Subtree(heap, bst[i].root)
  /\ it # MapBegin(heap, bst[i])
  /\ \E r \in {MapIterPostDec(heap, it)} :
        ret' = Ret("post_dec", i, heap[it].first, heap[it].second,
                   [before |-> it, after |-> r.it], r.returned, TRUE)
  /\ UNCHANGED <<heap, bst, loop, shadow>>

\* m.clear()
Clear(i) ==
  /\ ~loop.active
  /\ \E r \in {MapClear(heap, bst[i])} :
         /\ heap' = r.heap
         /\ bst' = [bst EXCEPT ![i] = r.bst]
  /\ ret' = Ret("clear", i, 0, DefaultV, NULL, NULL, TRUE)
  /\ shadow' = [shadow EXCEPT ![i] = {}]
  /\ UNCHANGED loop

\* dst = src
CopyAssign(i, j) ==
  /\ ~loop.active
  /\ i # j
  /\ Cardinality(FreeIds(heap)) + bst[i].numElements >= bst[j].numElements
  /\ \E r \in {MapAssign(heap, bst[i], bst[j])} :
         /\ heap' = r.heap
         /\ bst' = [bst EXCEPT ![i] = r.bst]
  /\ ret' = Ret("copy", i, 0, DefaultV, NULL, NULL, TRUE)
  /\ shadow' = [shadow EXCEPT ![i] = shadow[j]]
  /\ UNCHANGED loop

\* map dst(src): the object in slot i begins its life as a copy of map j
CopyConstruct(i, j) ==
  /\ ~loop.active
  /\ i # j
  /\ bst[i] = EmptyBST
  /\ Cardinality(FreeIds(heap)) >= bst[j].numElements
  /\ \E r \in {MapCopyConstruct(heap, bst[j])} :
        /\ heap' = r.heap
        /\ bst' = [bst EXCEPT ![i] = r.bst]
  /\ ret' = Ret("copy_construct", i, 0, DefaultV, NULL, NULL, TRUE)
  /\ shadow' = [shadow EXCEPT ![i] = shadow[j]]
  /\ UNCHANGED loop

\* dst = std::move(src)
MoveAssign(i, j) ==
  /\ ~loop.active
  /\ i # j
  /\ \E r \in {MapMoveAssign(heap, bst[i], bst[j])} :
         /\ heap' = r.heap
         /\ bst' = [bst EXCEPT ![i] = r.dst, ![j] = r.src]
  /\ ret' = Ret("move", i, 0, DefaultV, NULL, NULL, TRUE)
  /\ shadow' = [shadow EXCEPT ![i] = shadow[j], ![j] = {}]
  /\ UNCHANGED loop

\* map dst(std::move(src)): the object in slot i begins its life with map j's tree
MoveConstruct(i, j) ==
  /\ ~loop.active
  /\ i # j
  /\ bst[i] = EmptyBST
  /\ \E r \in {MapMoveConstruct(bst[j])} :
        bst' = [bst EXCEPT ![i] = r.dst, ![j] = r.src]
  /\ ret' = Ret("move_construct", i, 0, DefaultV, NULL, NULL, TRUE)
  /\ shadow' = [shadow EXCEPT ![i] = shadow[j], ![j] = {}]
  /\ UNCHANGED <<heap, loop>>

\* swap(m1, m2)
Swap ==
  /\ ~loop.active
  /\ \E r \in {MapSwap(bst[1], bst[2])} :
         bst' = [bst EXCEPT ![1] = r.lhs, ![2] = r.rhs]
  /\ ret' = Ret("swap", 1, 0, DefaultV, NULL, NULL, TRUE)
  /\ shadow' = [shadow EXCEPT ![1] = shadow[2], ![2] = shadow[1]]
  /\ UNCHANGED <<heap, loop>>

\* a client of one map, m1
Next ==
  \/ \E k \in Keys, v \in Vals : Insert(1, k, v)
  \/ \E k \in Keys : Subscript(1, k)
  \/ \E v \in Vals : AssignRef(v)
  \/ \E k \in Keys : SubscriptConst(1, k)
  \/ \E k \in Keys : At(1, k)
  \/ \E k \in Keys : Find(1, k)
  \/ \E k \in Keys : EraseKey(1, k)
  \/ \E it \in NodeIds \cup {MapEnd} : EraseIt(1, it)
  \/ \E first, last \in NodeIds \cup {MapEnd} : EraseRangeCall(1, first, last)
  \/ \E it \in NodeIds : PostInc(1, it)
  \/ \E it \in NodeIds : PostDec(1, it)
  \/ EraseRangeLoop
  \/ Clear(1)

Spec == Init /\ [][Next]_vars

\* a client of two maps: m1 is read and written as above, and m1 and m2 are
\* cleared, copied, moved and swapped into each other
NextPair ==
  \/ \E k \in Keys, v \in Vals : Insert(1, k, v)
  \/ \E k \in Keys : Subscript(1, k)
  \/ \E v \in Vals : AssignRef(v)
  \/ \E k \in Keys : EraseKey(1, k)
  \/ \E it \in NodeIds \cup {MapEnd} : EraseIt(1, it)
  \/ \E first, last \in NodeIds \cup {MapEnd} : EraseRangeCall(1, first, last)
  \/ EraseRangeLoop
  \/ \E i \in Maps : Clear(i)
  \/ \E i, j \in Maps : CopyAssign(i, j)
  \/ \E i, j \in Maps : MoveAssign(i, j)
  \/ \E i, j \in Maps : MoveConstruct(i, j)
  \/ Swap

SpecPair == Init /\ [][NextPair]_vars

\* a client of an original and its copy: m1 is written, either map is cleared,
\* and either map is made a copy of the other
NextCopy ==
  \/ \E k \in Keys, v \in Vals : Insert(1, k, v)
  \/ \E k \in Keys : Subscript(1, k)
  \/ \E v \in Vals : AssignRef(v)
  \/ \E k \in Keys : EraseKey(1, k)
  \/ \E i \in Maps : Clear(i)
  \/ \E i, j \in Maps : CopyAssign(i, j)
  \/ \E i, j \in Maps : CopyConstruct(i, j)

SpecCopy == Init /\ [][NextCopy]_vars

\* a client that fills one map, m1, from literal lists and ranges of pairs
NextList ==
  \/ \E il \in Lists : InsertList(1, il)
  \/ \E il \in Lists : \E first, last \in 1..(MaxList + 1) : InsertRange(1, il, first, last)
  \/ \E il \in Lists : AssignList(1, il)
  \/ \E il \in Lists : ConstructList(1, il)
  \/ \E il \in Lists : \E first, last \in 1..(MaxList + 1) : ConstructRange(1, il, first, last)
  \/ \E k \in Keys : EraseKey(1, k)
  \/ Clear(1)

SpecList == Init /\ [][NextList]_vars

\* a client that grows and shrinks one map, m1, of up to MaxTall keys, in every
\* order of insertion and removal
InitTall ==
  /\ heap = [n \in 1..MaxTall |-> FreeNode]
  /\ bst = [i \in Maps |-> EmptyBST]
  /\ ret = NoRet
  /\ loop = NoLoop
  /\ shadow = [i \in Maps |-> {}]

NextTall ==
  \/ \E k \in 1..MaxTall : Insert(1, k, DefaultV)
  \/ \E k \in 1..MaxTall : EraseKey(1, k)

SpecTall == InitTall /\ [][NextTall]_vars

\* ---- well-formedness of the tree (sanity of the tree engine) ----------------
RECURSIVE BlackHeight(_, _)
BlackHeight(h, n) ==
  IF n = NULL THEN 1
  ELSE LET l == BlackHeight(h, h[n].pLeft)
           r == BlackHeight(h, h[n].pRight)
       IN  IF l = 0 \/ r = 0 \/ l # r THEN 0
           ELSE l + (IF h[n].isRed THEN 0 ELSE 1)

RedBlack(h, b) ==
  /\ ~IsRed(h, b.root)
  /\ \A n \in Subtree(h, b.root) :
       h[n].isRed => ~IsRed(h, h[n].pLeft) /\ ~IsRed(h, h[n].pRight)
  /\ BlackHeight(h, b.root) # 0

Linked(h, b) ==
  /\ b.root # NULL => h[b.root].pParent = NULL
  /\ \A n \in Subtree(h, b.root) :
       /\ h[n].live
       /\ h[n].pLeft # NULL => h[h[n].pLeft].pParent = n
       /\ h[n].pRight # NULL => h[h[n].pRight].pParent = n

WellFormed ==
  /\ \A i \in Maps : RedBlack(heap, bst[i]) /\ Linked(heap, bst[i])
  /\ Subtree(heap, bst[1].root) \cap Subtree(heap, bst[2].root) = {}
  /\ \A n \in NodeIds :
       heap[n].live <=> n \in Subtree(heap, bst[1].root) \cup Subtree(heap, bst[2].root)


\* ---- properties -------------------------------------------------------------
NodesOf(h, b) == {Visited(h, b)[x] : x \in 1..Len(Visited(h, b))}

CountKey(es, k) == Cardinality({x \in 1..Len(es) : es[x][1] = k})

\* es without the elements whose key is k
Dropped(es, k) == SelectSeq(es, LAMBDA e : e[1] # k)

\* C1. Uniqueness of insert: insert(pair) with a key already present creates no
\* second element with that key, leaves size() unchanged and returns (iterator to
\* the stored element, false); with an absent key it returns (iterator to the new
\* element, true) and size() grows by exactly 1.
C1_InsertUnique ==
  [][ret'.op = "insert" =>
       LET i == ret'.m
           k == ret'.k
       IN  IF k \in KeysOf(heap, bst[i])
           THEN /\ ~ret'.ok
                /\ MapSize(bst'[i]) = MapSize(bst[i])
                /\ CountKey(Elements(heap', bst'[i]), k) = 1
                /\ ret'.it \in NodesOf(heap, bst[i])
                /\ heap[ret'.it].first = k
                /\ heap'[ret'.it] = heap[ret'.it]
           ELSE /\ ret'.ok
                /\ MapSize(bst'[i]) = MapSize(bst[i]) + 1
                /\ CountKey(Elements(heap', bst'[i]), k) = 1
                /\ ret'.it \in NodesOf(heap', bst'[i])
                /\ ret'.it \notin NodesOf(heap, bst[i])
                /\ heap'[ret'.it].first = k
                /\ heap'[ret'.it].second = ret'.v]_vars

\* a duplicate was rejected by a map that holds several elements
C1_Witness == ret.op = "insert" /\ ~ret.ok /\ MapSize(bst[1]) >= 2

\* C2. operator[](k) is access-or-create: an absent k is inserted with V() (size()
\* grows by 1, find(k) != end()), a present k leaves size() alone; either way the
\* reference is to the value stored for k, and a write through it is what a later
\* find(k) and at(k) see.
C2_SubscriptAccessOrCreate ==
  [][/\ ret'.op = "subscript" =>
          LET i == ret'.m
              k == ret'.k
          IN  /\ ret'.it \in NodesOf(heap', bst'[i])
              /\ heap'[ret'.it].first = k
              /\ MapFind(heap', bst'[i], k) = ret'.it
              /\ CountKey(Elements(heap', bst'[i]), k) = 1
              /\ IF k \in KeysOf(heap, bst[i])
                 THEN /\ MapSize(bst'[i]) = MapSize(bst[i])
                      /\ ret'.it \in NodesOf(heap, bst[i])
                      /\ heap[ret'.it].first = k
                      /\ heap'[ret'.it].second = heap[ret'.it].second
                 ELSE /\ MapSize(bst'[i]) = MapSize(bst[i]) + 1
                      /\ heap'[ret'.it].second = DefaultV
     /\ ret'.op = "assign" /\ ret.op = "subscript" =>
          LET i == ret'.m
              k == ret'.k
              f == MapFind(heap', bst'[i], k)
              a == MapAt(heap', bst'[i], k)
          IN  /\ f # MapEnd
              /\ heap'[f].first = k
              /\ heap'[f].second = ret'.v
              /\ ~a.threw
              /\ a.heap[a.ref].second = ret'.v
              /\ MapSize(bst'[i]) = MapSize(bst[i])]_vars

\* m[k] = true was written into a map that holds another element as well
C2_Witness ==
  /\ ret.op = "assign"
  /\ ret.v = TRUE
  /\ MapSize(bst[1]) >= 2
  /\ <<ret.k, TRUE>> \in shadow[1]

\* C3. at(k) returns the value stored for k when k is present and fails with
\* KeyNotFound (std::out_of_range) when k is absent, the empty map included;
\* operator[] and find never raise it.
C3_AtThrowsIffAbsent ==
  /\ ret.op = "at" =>
       LET es == Elements(heap, bst[ret.m])
       IN  /\ ret.ok <=> ret.k \in KeysOf(heap, bst[ret.m])
           /\ ret.ok => \E x \in 1..Len(es) : es[x] = <<ret.k, ret.v>>
           /\ ret.ok => ret.it \in NodesOf(heap, bst[ret.m]) /\ heap[ret.it].first = ret.k
  /\ ret.op \in {"subscript", "find"} => ret.ok

\* at(k) has failed for a key that is absent from a populated map
C3_Witness == ret.op = "at" /\ ~ret.ok /\ MapSize(bst[1]) >= 1

\* C4. at(k) never mutates the map: whether it returns or fails, size() and the
\* sequence of elements from begin() to end() are what they were before the call.
C4_AtNoMutation ==
  [][ret'.op = "at" =>
       /\ MapSize(bst'[ret'.m]) = MapSize(bst[ret'.m])
       /\ Elements(heap', bst'[ret'.m]) = Elements(heap, bst[ret'.m])
       /\ heap' = heap]_vars

\* at(k) has failed on a map of two elements
C4_Witness ==
  /\ ret.op = "at"
  /\ ~ret.ok
  /\ MapSize(bst[1]) = 2
  /\ Len(Elements(heap, bst[1])) = 2

\* C5. find(k) returns end() exactly when k is not in the map, otherwise an
\* iterator whose element has key k; it raises nothing and changes neither size()
\* nor the elements.
C5_FindEndIffAbsent ==
  [][ret'.op = "find" =>
       LET i == ret'.m
           k == ret'.k
       IN  /\ ret'.it = MapEnd <=> k \notin KeysOf(heap, bst[i])
           /\ ret'.it # MapEnd =>
                ret'.it \in NodesOf(heap, bst[i]) /\ heap[ret'.it].first = k
           /\ ret'.ok
           /\ MapSize(bst'[i]) = MapSize(bst[i])
           /\ Elements(heap', bst'[i]) = Elements(heap, bst[i])]_vars

\* find missed a key in a map that holds others
C5_Witness == ret.op = "find" /\ ret.it = MapEnd /\ MapSize(bst[1]) >= 2

\* C6. Round trip: between calls, a key inserted with value v and neither erased
\* nor overwritten since is found with value v by find and by at, whatever else
\* was inserted or erased; a key erased (or never inserted) is not found and
\* at fails for it.
C6_RoundTrip ==
  ~loop.active =>
    \A i \in Maps, k \in Keys :
      LET f == MapFind(heap, bst[i], k)
          a == MapAt(heap, bst[i], k)
      IN  IF HasKey(shadow[i], k)
          THEN /\ f # MapEnd
               /\ <<heap[f].first, heap[f].second>> \in shadow[i]
               /\ heap[f].first = k
               /\ ~a.threw
               /\ <<k, a.heap[a.ref].second>> \in shadow[i]
          ELSE /\ f = MapEnd
               /\ a.threw

\* a key was erased from under two others, one of them stored with value true
C6_Witness ==
  /\ ret.op = "erase_key"
  /\ ret.ok
  /\ Cardinality(shadow[1]) = 2
  /\ \E p \in shadow[1] : p[2] = TRUE

\* C7. erase(key): an absent key gives 0 and changes nothing; a present key
\* gives 1, size() shrinks by exactly 1, the key is no longer found and every
\* other key is still there with its value, also when the erased element has two
\* children in the tree.
C7_EraseKey ==
  [][ret'.op = "erase_key" =>
       LET i == ret'.m
           k == ret'.k
       IN  IF k \notin KeysOf(heap, bst[i])
           THEN /\ ~ret'.ok
                /\ MapSize(bst'[i]) = MapSize(bst[i])
                /\ Elements(heap', bst'[i]) = Elements(heap, bst[i])
           ELSE /\ ret'.ok
                /\ MapSize(bst'[i]) = MapSize(bst[i]) - 1
                /\ MapFind(heap', bst'[i], k) = MapEnd
                /\ Elements(heap', bst'[i]) = Dropped(Elements(heap, bst[i]), k)]_vars

\* a key was erased whose node had two children (that node lives on, with its
\* successor's element)
C7_Witness ==
  /\ ret.op = "erase_key"
  /\ ret.ok
  /\ heap[ret.arg].live
  /\ heap[ret.arg].first # ret.k
  /\ MapSize(bst[1]) = 2

\* C8. Ordering: after any sequence of insert, operator[], erase and clear, the
\* walk from begin() with ++ to end() visits keys in strictly increasing order.
C8_Ordering ==
  \A i \in Maps :
    LET es == Elements(heap, bst[i])
    IN  \A x \in 1..Len(es) : \A y \in 1..Len(es) : x < y => es[x][1] < es[y][1]

\* a full map, the last key having come in through operator[]
C8_Witness ==
  /\ ret.op = "subscript"
  /\ MapSize(bst[1]) = MaxKey
  /\ Len(Elements(heap, bst[1])) = MaxKey

\* C9. Count consistency: in every state, size() is the number of elements a
\* full walk from begin() to end() visits.
C9_CountConsistency ==
  \A i \in Maps : MapSize(bst[i]) = Len(Visited(heap, bst[i]))

\* two populated maps of different sizes have just been swapped
C9_Witness ==
  /\ ret.op = "swap"
  /\ MapSize(bst[1]) >= 1
  /\ MapSize(bst[2]) > MapSize(bst[1])

\* C10. Iterator invalidation: erasing the element at node N invalidates only
\* iterators at N: an iterator at any other element (N's in-order successor in
\* particular) still references a live node with the same element; insertions
\* invalidate no iterator.
C10_OnlyErasedNodeInvalidated ==
  [][/\ ret'.op \in {"erase_it", "erase_key"} /\ ret'.arg # NULL =>
          \A n \in NodesOf(heap, bst[ret'.m]) \ {ret'.arg} :
            /\ heap'[n].live
            /\ heap'[n].first = heap[n].first
            /\ heap'[n].second = heap[n].second
     /\ ret'.op \in {"insert", "subscript"} =>
          \A n \in NodesOf(heap, bst[ret'.m]) :
            /\ heap'[n].live
            /\ heap'[n].first = heap[n].first
            /\ heap'[n].second = heap[n].second]_vars

\* the other one of the two maps
Other(i) == CHOOSE j \in Maps : j # i

\* C11. Deep-copy isolation: copy construction and copy assignment leave the
\* destination with exactly the source's elements (in nodes of its own, the
\* source as it was), and no insert, operator[], write through a reference,
\* erase or clear on one map changes the size or the elements of the other.
C11_DeepCopyIsolation ==
  [][/\ ret'.op \in {"copy", "copy_construct"} =>
          /\ Elements(heap', bst'[ret'.m]) = Elements(heap, bst[Other(ret'.m)])
          /\ MapSize(bst'[ret'.m]) = MapSize(bst[Other(ret'.m)])
          /\ Elements(heap', bst'[Other(ret'.m)]) = Elements(heap, bst[Other(ret'.m)])
          /\ NodesOf(heap', bst'[1]) \cap NodesOf(heap', bst'[2]) = {}
     /\ ret'.op \in {"insert", "subscript", "assign", "erase_key", "clear"} =>
          /\ MapSize(bst'[Other(ret'.m)]) = MapSize(bst[Other(ret'.m)])
          /\ Elements(heap', bst'[Other(ret'.m)]) = Elements(heap, bst[Other(ret'.m)])]_vars

\* m2 was copied from m1, and m1 was then written through m1[k]: the two maps
\* now hold different values for k
C11_Witness ==
  /\ ret.op = "assign"
  /\ ret.m = 1
  /\ MapSize(bst[2]) >= 2
  /\ <<ret.k, TRUE>> \in shadow[1]
  /\ \E x \in 1..Len(Elements(heap, bst[2])) : Elements(heap, bst[2])[x] = <<ret.k, FALSE>>

\* C12. Move transfer: after move construction or move assignment the source is
\* empty (size() = 0, begin() = end()), the destination holds exactly the
\* elements the source held, and the nodes the destination held before are
\* released: none of its previous elements remain.
C12_MoveTransfer ==
  [][ret'.op \in {"move", "move_construct"} =>
       /\ MapSize(bst'[Other(ret'.m)]) = 0
       /\ MapBegin(heap', bst'[Other(ret'.m)]) = MapEnd
       /\ Elements(heap', bst'[Other(ret'.m)]) = <<>>
       /\ Elements(heap', bst'[ret'.m]) = Elements(heap, bst[Other(ret'.m)])
       /\ MapSize(bst'[ret'.m]) = MapSize(bst[Other(ret'.m)])
       /\ \A n \in NodesOf(heap, bst[ret'.m]) : ~heap'[n].live]_vars

\* a map of several elements was move-assigned; the source is now empty
C12_Witness ==
  /\ ret.op = "move"
  /\ MapSize(bst[ret.m]) >= 2
  /\ Len(Elements(heap, bst[ret.m])) >= 2
  /\ bst[Other(ret.m)] = EmptyBST

\* the elements es as a set of pairs
PairsOf(es) == {es[x] : x \in 1..Len(es)}

C14_InsertUpdatesValue ==
  [][ret'.op = "insert" /\ ret'.k \in KeysOf(heap, bst[ret'.m]) =>
       /\ MapSize(bst'[ret'.m]) = MapSize(bst[ret'.m])
       /\ CountKey(Elements(heap', bst'[ret'.m]), ret'.k) = 1
       /\ <<ret'.k, ret'.v>> \in PairsOf(Elements(heap', bst'[ret'.m]))]_vars

\* the number of nodes on the longest path from n down to a leaf
RECURSIVE Height(_, _)
Height(h, n) ==
  IF n = NULL THEN 0
  ELSE The({1 + (IF l >= r THEN l ELSE r) :
            l \in {Height(h, h[n].pLeft)}, r \in {Height(h, h[n].pRight)}})

\* C15. Balance: after any sequence of inserts and erases, in every order, the
\* height of a tree of n elements is at most 2*log2(n+1), that is
\* 2^height <= (n+1)^2, and a tree of three or more elements is not a chain.
C15_Balance ==
  \A i \in Maps :
    \E ht \in {Height(heap, bst[i].root)} :
      /\ 2 ^ ht <= (MapSize(bst[i]) + 1) * (MapSize(bst[i]) + 1)
      /\ MapSize(bst[i]) >= 3 => ht < MapSize(bst[i])

\* MaxTall keys were inserted and one of them was then erased
C15_Witness ==
  /\ ret.op = "erase_key"
  /\ ret.ok
  /\ MapSize(bst[1]) = MaxTall - 1
  /\ Height(heap, bst[1].root) >= 3

\* C16. erase(first, last) on a valid range terminates, removes exactly the
\* elements of [first, last) and returns last: while the loop runs no element
\* outside the range is gone, first has not run past last to end(), and when it
\* returns the map holds exactly the elements outside the range.
C16_EraseRange ==
  /\ loop.active =>
       /\ shadow[loop.m] \subseteq PairsOf(Elements(heap, bst[loop.m]))
       /\ loop.first = MapEnd => loop.last = MapEnd
  /\ ret.op = "erase_range" =>
       /\ PairsOf(Elements(heap, bst[ret.m])) = shadow[ret.m]
       /\ MapSize(bst[ret.m]) = Cardinality(shadow[ret.m])

\* C17. erase(it) removes the element it refers to and returns an iterator to
\* the element with the smallest key greater than the removed one in the map as
\* it then is, or end() if there is none; erase(end()) changes nothing and
\* returns end().
C17_EraseIterator ==
  [][ret'.op = "erase_it" =>
       IF ret'.arg = MapEnd
       THEN /\ ret'.it = MapEnd
            /\ MapSize(bst'[ret'.m]) = MapSize(bst[ret'.m])
            /\ Elements(heap', bst'[ret'.m]) = Elements(heap, bst[ret'.m])
       ELSE /\ MapSize(bst'[ret'.m]) = MapSize(bst[ret'.m]) - 1
            /\ Elements(heap', bst'[ret'.m]) =
                 Dropped(Elements(heap, bst[ret'.m]), heap[ret'.arg].first)
            /\ \E above \in {{k \in KeysOf(heap', bst'[ret'.m]) : k > heap[ret'.arg].first}} :
                 IF above = {}
                 THEN ret'.it = MapEnd
                 ELSE /\ ret'.it \in NodesOf(heap', bst'[ret'.m])
                      /\ heap'[ret'.it].first \in above
                      /\ \A k \in above : heap'[ret'.it].first <= k]_vars

\* an element whose node has two children was erased: the iterator returned is
\* at the same node, which now holds the next element
C17_Witness ==
  /\ ret.op = "erase_it"
  /\ ret.arg # MapEnd
  /\ ret.it = ret.arg
  /\ heap[ret.it].live
  /\ heap[ret.it].first > ret.k
  /\ MapSize(bst[1]) >= 2

\* C18. The const operator[](k) never inserts: size(), the elements and what
\* find(k) answers are as before the call; it yields the stored value when k is
\* present and a default-constructed value when k is absent.
C18_ConstSubscript ==
  [][ret'.op = "subscript_const" =>
       /\ MapSize(bst'[ret'.m]) = MapSize(bst[ret'.m])
       /\ Elements(heap', bst'[ret'.m]) = Elements(heap, bst[ret'.m])
       /\ MapFind(heap', bst'[ret'.m], ret'.k) = MapFind(heap, bst[ret'.m], ret'.k)
       /\ IF ret'.k \in KeysOf(heap, bst[ret'.m])
          THEN <<ret'.k, ret'.v>> \in PairsOf(Elements(heap, bst[ret'.m]))
          ELSE ret'.v = DefaultV]_vars

\* C19. Emptiness agreement: in every state and for every map, empty() is true
\* exactly when size() = 0 and exactly when begin() = end().
C19_EmptinessAgreement ==
  \A i \in Maps :
    /\ MapEmpty(bst[i]) <=> MapSize(bst[i]) = 0
    /\ MapEmpty(bst[i]) <=> MapBegin(heap, bst[i]) = MapEnd

\* a populated map was moved from: it is empty by all three tests and the
\* destination is not
C19_Witness ==
  /\ ret.op = "move"
  /\ MapEmpty(bst[Other(ret.m)])
  /\ MapBegin(heap, bst[Other(ret.m)]) = MapEnd
  /\ ~MapEmpty(bst[ret.m])
  /\ MapBegin(heap, bst[ret.m]) # MapEnd

\* C20. Postfix stepping returns the position held before the step: it++
\* returns the old position and leaves it at the next element of the traversal
\* (end() after the last), it-- returns the old position and leaves it at the
\* previous element; the iterator returned differs from it after the call.
C20_PostfixReturnsOld ==
  [][ret'.op \in {"post_inc", "post_dec"} =>
       \E w \in {Visited(heap, bst[ret'.m])} :
         \E x \in {Position(w, ret'.arg.before)} :
           /\ ret'.it = ret'.arg.before
           /\ ret'.it # ret'.arg.after
           /\ ret'.op = "post_inc" =>
                ret'.arg.after = (IF x = Len(w) THEN MapEnd ELSE w[x + 1])
           /\ ret'.op = "post_dec" => ret'.arg.after = w[x - 1]]_vars

====
